---- MODULE Spec2Model ----
(***************************************************************************)
(* A model of bot/steam_bot_api.py: the Telegram handler handle_steam_id   *)
(* and the functions it calls (resolve_steam_id, fetch_steam_profile,      *)
(* simplify_steam_profile, llm_message).                                   *)
(*                                                                         *)
(* Strings the code inspects character by character are sequences of       *)
(* one-character strings.  An optional value (Python None, or a dict key   *)
(* that may be missing) is a sequence of length at most one: None is <<>>  *)
(* and a present value x is <<x>>.                                         *)
(*                                                                         *)
(* Every requests.get / requests.post is one step of the handler: the      *)
(* request is appended to log by the step that issues it, and the step     *)
(* that consumes the response draws the response from a small set.         *)
(***************************************************************************)
EXTENDS Integers, Sequences, FiniteSets, TLC

VARIABLES pc, text, steam_id, user_data, friend_ids, i, friends_list,
          owned_games, profile_data, simplified, roast, log, resps,
          user_input, resolved, all_games, sample, friends_in, top_countries

vars == <<pc, text, steam_id, user_data, friend_ids, i, friends_list,
          owned_games, profile_data, simplified, roast, log, resps,
          user_input, resolved, all_games, sample, friends_in, top_countries>>

handlerVars == <<pc, text, steam_id, user_data, friend_ids, i, friends_list,
                 owned_games, profile_data, simplified, roast, log, resps>>
resolveVars == <<user_input, resolved>>
gamesVars == <<all_games, sample>>
tallyVars == <<friends_in, top_countries>>

-----------------------------------------------------------------------------
(* Optional values *)

None == <<>>
Some(x) == <<x>>

\* dict.get(key, default)
Get(opt, default) == IF opt = None THEN default ELSE opt[1]

\* dict.get(key) or default : a missing or empty value gives the default
OrDefault(opt, default) == IF opt = None \/ opt[1] = "" THEN default ELSE opt[1]

Min(a, b) == IF a <= b THEN a ELSE b

-----------------------------------------------------------------------------
(* str methods used by the handler and the resolver *)

DigitChars == {"0", "1", "2", "3", "4", "5", "6", "7", "8", "9"}
Whitespace == {" "}

RECURSIVE LStrip(_)
LStrip(s) == IF s # <<>> /\ Head(s) \in Whitespace THEN LStrip(Tail(s)) ELSE s

RECURSIVE RStrip(_)
RStrip(s) ==
    IF s # <<>> /\ s[Len(s)] \in Whitespace
    THEN RStrip(SubSeq(s, 1, Len(s) - 1))
    ELSE s

\* str.strip()
Strip(s) == RStrip(LStrip(s))

\* str.isdigit(): non-empty and every character a digit
IsDigit(s) == s # <<>> /\ \A k \in 1..Len(s) : s[k] \in DigitChars

\* str.startswith(p)
StartsWith(s, p) == Len(s) >= Len(p) /\ SubSeq(s, 1, Len(p)) = p

\* str.find(p): the first index (from 1) at which p occurs in s, 0 when none
Find(s, p) ==
    LET hits == {k \in 1..(Len(s) - Len(p) + 1) : SubSeq(s, k, k + Len(p) - 1) = p}
    IN IF hits = {} THEN 0 ELSE CHOOSE k \in hits : \A m \in hits : k <= m

\* p in s
Contains(s, p) == Find(s, p) # 0

\* s.split(sep)[-1]: what follows the last separator of a left-to-right split
RECURSIVE SplitLast(_, _)
SplitLast(s, sep) ==
    IF Find(s, sep) = 0
    THEN s
    ELSE SplitLast(SubSeq(s, Find(s, sep) + Len(sep), Len(s)), sep)

\* s.split(sep)[0]: what precedes the first separator
SplitFirst(s, sep) ==
    IF Find(s, sep) = 0 THEN s ELSE SubSeq(s, 1, Find(s, sep) - 1)

-----------------------------------------------------------------------------
(* Responses of the outbound HTTP calls.                                   *)
(* kind "connection" and "timeout": requests raises.  kind "http": a       *)
(* response arrived, with its status code; parsed says whether .json()     *)
(* and the subscripts the code applies to it succeed; payload is what the  *)
(* code reads from the body.  A response with a status other than 200      *)
(* carries no body the code could read.                                    *)

ConnectionError == [kind |-> "connection", status |-> 0, parsed |-> FALSE, payload |-> <<>>]
Timeout == [kind |-> "timeout", status |-> 0, parsed |-> FALSE, payload |-> <<>>]
HttpError == [kind |-> "http", status |-> 500, parsed |-> FALSE, payload |-> <<>>]
Redirected == [kind |-> "http", status |-> 302, parsed |-> FALSE, payload |-> <<>>]
Malformed == [kind |-> "http", status |-> 200, parsed |-> FALSE, payload |-> <<>>]
Ok(p) == [kind |-> "http", status |-> 200, parsed |-> TRUE, payload |-> p]

Failures == {ConnectionError, Timeout, HttpError, Redirected, Malformed}

\* requests.get / requests.post raise
Raises(resp) == resp.kind \in {"connection", "timeout"}

\* resp.raise_for_status() raises
RaiseForStatus(resp) == resp.status >= 400 /\ resp.status < 600

\* The calls that sit inside a try ... except Exception: the vanity lookup
\* (lines 36-43), the friend list and its batches (68-91), the owned games
\* (95-112), the chat completion (172-183).  The profile request of lines
\* 53-64 is in none.
TryBlocksWithoutFriends == {"vanity", "games", "llm"}

TryBlocksWithoutLlm == {"vanity", "friends", "games"}

TryBlocks == {"vanity", "friends", "games", "llm"}

-----------------------------------------------------------------------------
(* resolve_steam_id *)

MinIdLen == 15

IsCanonicalLonger(s) == IsDigit(s) /\ Len(s) > MinIdLen

\* line 31, on the stripped input: a numeric id is returned without a request
IsCanonical(s) == IsDigit(s) /\ Len(s) >= MinIdLen

\* lines 37-41: the request, raise_for_status(), .json() or a subscript raises
VanityRaises(resp) == Raises(resp) \/ RaiseForStatus(resp) \/ ~resp.parsed

VanityResultAnyAnswer(resp) ==
    IF VanityRaises(resp) THEN None ELSE Some(resp.payload.steamid)

\* lines 36-44: what resolve_steam_id returns once the vanity request ended
\* and any exception was caught
VanityResult(resp) ==
    IF VanityRaises(resp)
    THEN None
    ELSE IF resp.payload.success = 1 THEN Some(resp.payload.steamid) ELSE None

-----------------------------------------------------------------------------
(* Sorting: sorted(..., key=...) is a stable sort.  SortPerm(n, keys) is   *)
(* the order in which a stable descending sort by keys lists 1..n.         *)

RECURSIVE InsertDesc(_, _, _)
InsertDesc(j, perm, keys) ==
    IF perm = <<>>
    THEN <<j>>
    ELSE IF keys[Head(perm)] >= keys[j]
         THEN <<Head(perm)>> \o InsertDesc(j, Tail(perm), keys)
         ELSE <<j>> \o perm

RECURSIVE SortPerm(_, _)
SortPerm(n, keys) ==
    IF n = 0 THEN <<>> ELSE InsertDesc(n, SortPerm(n - 1, keys), keys)

SortedDesc(seq, keys) ==
    LET perm == SortPerm(Len(seq), keys)
    IN [k \in 1..Len(seq) |-> seq[perm[k]]]

-----------------------------------------------------------------------------
(* fetch_steam_profile *)

BatchSize == 100
SampleSize == 10

\* lines 53-64: "raise" when the request or .json() raises, "none" for the
\* two return None, "ok" when players[0] exists
ProfileOutcome(resp) ==
    IF Raises(resp) THEN "raise"
    ELSE IF resp.status # 200 THEN "none"
    ELSE IF ~resp.parsed THEN "raise"
    ELSE IF resp.payload = <<>> THEN "none"
    ELSE "ok"

\* the request or .json() raises (lines 69-76, 81-88, 96-108)
RaisesInTry(resp) == Raises(resp) \/ (resp.status = 200 /\ ~resp.parsed)

\* friend_ids[i:i + 100], i counted from 0
Batch(ids, off) == SubSeq(ids, off + 1, Min(off + BatchSize, Len(ids)))

\* g.get("playtime_forever", 0)
Playtime(g) == Get(g.playtime_forever, 0)

\* ascending sort, then reversed: equal playtimes come out in reverse order
GameSampleReversed(games) ==
    LET n == Len(games)
        backwards == [k \in 1..n |-> games[n + 1 - k]]
        sorted_games == SortedDesc(backwards, [k \in 1..n |-> Playtime(backwards[k])])
    IN SubSeq(sorted_games, 1, Min(SampleSize, Len(sorted_games)))

\* lines 109-110
GameSample(games) ==
    LET sorted_games == SortedDesc(games, [k \in 1..Len(games) |-> Playtime(games[k])])
    IN SubSeq(sorted_games, 1, Min(SampleSize, Len(sorted_games)))

\* lines 94-112: owned_games after the games request ended and any exception
\* was caught
OwnedGames(resp) ==
    IF RaisesInTry(resp) \/ resp.status # 200 THEN <<>> ELSE GameSample(resp.payload)

-----------------------------------------------------------------------------
(* simplify_steam_profile *)

TopN == 5

\* friends[k].get("loccountrycode", "??")
CountryKey(friends, k) == Get(friends[k].loccountrycode, "??")

\* the friends that add a key to the dict friend_countries: the first of
\* each country, in the order the loop of line 133 meets them
FirstOfCountry(friends) ==
    {k \in 1..Len(friends) :
        \A j \in 1..(k - 1) : CountryKey(friends, j) # CountryKey(friends, k)}

TallyNamedOnly(friends) ==
    LET named == SelectSeq(friends, LAMBDA f : f.loccountrycode # None)
        firsts == FirstOfCountry(named)
        nth(r) == CHOOSE k \in firsts : Cardinality({j \in firsts : j < k}) = r - 1
    IN [r \in 1..Cardinality(firsts) |->
           [c |-> CountryKey(named, nth(r)),
            cnt |-> Cardinality({j \in 1..Len(named) :
                                    CountryKey(named, j) = CountryKey(named, nth(r))})]]

\* lines 132-135: the items of the dict friend_countries after the loop, in
\* insertion order, each key with the number of friends that carry it
Tally(friends) ==
    LET firsts == FirstOfCountry(friends)
        nth(r) == CHOOSE k \in firsts : Cardinality({j \in firsts : j < k}) = r - 1
    IN [r \in 1..Cardinality(firsts) |->
           [c |-> CountryKey(friends, nth(r)),
            cnt |-> Cardinality({j \in 1..Len(friends) :
                                    CountryKey(friends, j) = CountryKey(friends, nth(r))})]]

TopCountriesUnsorted(friends) ==
    SubSeq(Tally(friends), 1, Min(TopN, Len(Tally(friends))))

\* line 136: the pairs that are joined into "<cnt> from <c>, ..."
TopCountries(friends) ==
    LET items == Tally(friends)
        ranked == SortedDesc(items, [k \in 1..Len(items) |-> items[k].cnt])
    IN SubSeq(ranked, 1, Min(TopN, Len(ranked)))

RECURSIVE SumPlaytime(_)
SumPlaytime(games) ==
    IF games = <<>> THEN 0 ELSE Playtime(Head(games)) + SumPlaytime(Tail(games))

\* lines 121-154.  The digest is kept as its fields; total_minutes is the sum
\* that line 138 divides by 60, titles are the names line 139 joins.
Simplify(data) ==
    [ persona |-> OrDefault(data.profile.personaname, "No nickname"),
      name |-> OrDefault(data.profile.realname, "Not specified"),
      country |-> OrDefault(data.profile.loccountrycode, "Unknown"),
      total_friends |-> Len(data.friends),
      top_countries |-> TopCountries(data.friends),
      sample_size |-> Len(data.owned_games_sample),
      total_minutes |-> SumPlaytime(data.owned_games_sample),
      titles |-> [k \in 1..Min(10, Len(data.owned_games_sample)) |->
                     data.owned_games_sample[k].name] ]

-----------------------------------------------------------------------------
(* llm_message *)

Apology == "Sorry, I'm having trouble thinking right now."

\* lines 178-180: the request, raise_for_status(), .json() or a subscript raises
LlmRaises(resp) == Raises(resp) \/ RaiseForStatus(resp) \/ ~resp.parsed

\* lines 172-183, any exception caught
Answer(resp) == IF LlmRaises(resp) THEN Apology ELSE resp.payload

\* line 185: answer, a blank line, the digest
LlmMessage(resp, message) == [answer |-> Answer(resp), message |-> message]

-----------------------------------------------------------------------------
(* The inputs of the handler: inbound messages and provider responses.     *)

Id17 == <<"7","6","5","6","1","1","9","8","0","0","0","0","0","0","0","0","1">>
HttpPrefix == <<"h","t","t","p">>
IdMark == <<"/","i","d","/">>
ProfilesMark == <<"/","p","r","o","f","i","l","e","s","/">>
Site == <<"h","t","t","p","s",":","/","/","s","t","e","a","m">>
Gabe == <<"g","a","b","e">>

Messages ==
    { Id17,
      <<" ">> \o Id17 \o <<" ">>,
      Gabe,
      <<"1","2","3","4","5">>,
      Site \o IdMark \o Gabe \o <<"/">>,
      Site \o IdMark \o Id17,
      Site \o ProfilesMark \o Id17 \o <<"/">>,
      Site \o ProfilesMark,
      Site \o <<"/","a","p","p","/">> }

VanityPayloads ==
    { [success |-> 1, steamid |-> Id17], [success |-> 42, steamid |-> <<>>] }

Players ==
    { [personaname |-> Some("gaben"), realname |-> Some("Gabe"),
       loccountrycode |-> Some("US"), avatarfull |-> Some("avatar.jpg")],
      [personaname |-> None, realname |-> Some(""),
       loccountrycode |-> None, avatarfull |-> None] }

ProfilePayloads == {<<>>} \cup {<<p>> : p \in Players}

\* the provider's record of friend number n
CountryOf(n) ==
    IF n \in {1, 2} THEN Some("US")
    ELSE IF n % 4 = 3 THEN None
    ELSE IF n % 4 = 0 THEN Some("RU")
    ELSE IF n % 4 = 1 THEN Some("FR")
    ELSE Some("DE")

FriendRecord(n) == [steamid |-> n, loccountrycode |-> CountryOf(n)]

MaxFriends == 201
FriendCounts == {0, 3, BatchSize, BatchSize + 1, MaxFriends}
FriendPayloads == {[k \in 1..n |-> k] : n \in FriendCounts}

BatchPayload(batch) == [k \in 1..Len(batch) |-> FriendRecord(batch[k])]

Game(n, minutes) == [name |-> n, playtime_forever |-> minutes]

Games3 == <<Game(1, Some(30)), Game(2, None), Game(3, Some(30))>>
Games12 ==
    << Game(1, Some(120)), Game(2, Some(45)), Game(3, Some(600)), Game(4, None),
       Game(5, Some(45)), Game(6, Some(7)), Game(7, Some(300)), Game(8, Some(0)),
       Game(9, Some(45)), Game(10, Some(90)), Game(11, Some(15)), Game(12, Some(3000)) >>
GamePayloads == {<<>>, Games3, Games12}

Generated == "Generated roast."

-----------------------------------------------------------------------------
(* handle_steam_id, one step per outbound request *)

Request(what, arg) == [ev |-> "request", what |-> what, arg |-> arg]
Reply(what) == [ev |-> "reply", what |-> what, arg |-> <<>>]
Received(what, resp) == [what |-> what, resp |-> resp]

FalsyNoneOnly(sid) == sid = None

\* "not steam_id": None or the empty string
Falsy(sid) == sid = None \/ sid[1] = <<>>

\* lines 217-223 and the profile request of lines 53-58
Proceed(sid, lg) ==
    /\ steam_id' = sid
    /\ IF Falsy(sid)
       THEN /\ pc' = "done"
            /\ log' = Append(lg, Reply("not_found_id"))
       ELSE /\ pc' = "await_profile"
            /\ log' = Append(lg, Request("GetPlayerSummaries", sid[1]))

\* a call of resolve_steam_id, lines 30-37
CallResolve(arg, lg) ==
    LET stripped == Strip(arg)
    IN IF IsCanonical(stripped)
       THEN Proceed(Some(stripped), lg)
       ELSE /\ steam_id' = None
            /\ pc' = "await_vanity"
            /\ log' = Append(lg, Request("ResolveVanityURL", stripped))

\* lines 201-215
HandleMessage(msg) ==
    /\ pc = "idle"
    /\ text' = Strip(msg)
    /\ IF StartsWith(text', HttpPrefix)
       THEN IF Contains(text', IdMark)
            THEN CallResolve(SplitFirst(SplitLast(text', IdMark), <<"/">>), <<>>)
            ELSE IF Contains(text', ProfilesMark)
                 THEN Proceed(Some(SplitFirst(SplitLast(text', ProfilesMark), <<"/">>)), <<>>)
                 ELSE /\ steam_id' = None
                      /\ pc' = "done"
                      /\ log' = <<Reply("bad_link")>>
       ELSE CallResolve(text', <<>>)
    /\ UNCHANGED <<user_data, friend_ids, i, friends_list, owned_games, profile_data,
                   simplified, roast, resps, resolveVars, gamesVars, tallyVars>>

\* lines 38-44, then the handler from line 217
VanityResponse(resp) ==
    /\ pc = "await_vanity"
    /\ resps' = Append(resps, Received("ResolveVanityURL", resp))
    /\ IF VanityRaises(resp) /\ "vanity" \notin TryBlocks
       THEN /\ pc' = "raised"
            /\ UNCHANGED <<steam_id, log>>
       ELSE Proceed(VanityResult(resp), log)
    /\ UNCHANGED <<text, user_data, friend_ids, i, friends_list, owned_games,
                   profile_data, simplified, roast, resolveVars, gamesVars, tallyVars>>

\* lines 59-64, then the friend-list request of lines 69-74
ProfileResponse(resp) ==
    /\ pc = "await_profile"
    /\ resps' = Append(resps, Received("GetPlayerSummaries", resp))
    /\ IF ProfileOutcome(resp) = "raise"
       THEN /\ pc' = "raised"
            /\ UNCHANGED <<user_data, log>>
       ELSE IF ProfileOutcome(resp) = "none"
            THEN /\ pc' = "done"
                 /\ log' = Append(log, Reply("not_found_data"))
                 /\ UNCHANGED user_data
            ELSE /\ pc' = "await_friends"
                 /\ user_data' = Some(resp.payload[1])
                 /\ log' = Append(log, Request("GetFriendList", steam_id[1]))
    /\ UNCHANGED <<text, steam_id, friend_ids, i, friends_list, owned_games,
                   profile_data, simplified, roast, resolveVars, gamesVars, tallyVars>>

\* the owned-games request of lines 96-106
ToGames(lg) ==
    /\ pc' = "await_games"
    /\ log' = Append(lg, Request("GetOwnedGames", steam_id[1]))

\* an exception at a call of fetch_steam_profile: caught by the except of its
\* try block, which falls through to the owned-games request, or it leaves
\* the function and the handler
Throw(block) ==
    IF block \in TryBlocks
    THEN ToGames(log)
    ELSE /\ pc' = "raised"
         /\ UNCHANGED log

\* lines 75-86
FriendsResponse(resp) ==
    /\ pc = "await_friends"
    /\ resps' = Append(resps, Received("GetFriendList", resp))
    /\ IF RaisesInTry(resp)
       THEN /\ Throw("friends")
            /\ UNCHANGED friend_ids
       ELSE IF resp.status # 200
            THEN /\ ToGames(log)
                 /\ UNCHANGED friend_ids
            ELSE /\ friend_ids' = resp.payload
                 /\ IF friend_ids' # <<>>
                    THEN /\ pc' = "await_batch"
                         /\ log' = Append(log, Request("FriendSummaries", Batch(friend_ids', 0)))
                    ELSE ToGames(log)
    /\ UNCHANGED <<text, steam_id, user_data, i, friends_list, owned_games,
                   profile_data, simplified, roast, resolveVars, gamesVars, tallyVars>>

\* lines 87-91 and the next turn of the loop of line 79
BatchResponse(resp) ==
    /\ pc = "await_batch"
    /\ resps' = Append(resps, Received("FriendSummaries", resp))
    /\ IF RaisesInTry(resp)
       THEN /\ Throw("friends")
            /\ UNCHANGED <<i, friends_list>>
       ELSE /\ friends_list' =
                  IF resp.status = 200 THEN friends_list \o resp.payload ELSE friends_list
            /\ i' = i + BatchSize
            /\ IF i' < Len(friend_ids)
               THEN /\ pc' = "await_batch"
                    /\ log' = Append(log, Request("FriendSummaries", Batch(friend_ids, i')))
               ELSE ToGames(log)
    /\ UNCHANGED <<text, steam_id, user_data, friend_ids, owned_games,
                   profile_data, simplified, roast, resolveVars, gamesVars, tallyVars>>

\* lines 241-245: the card goes out as a photo when there is an avatar
Card(p) == IF p.avatarfull # None /\ p.avatarfull[1] # "" THEN "card_photo" ELSE "card_text"

\* lines 107-118, then the handler's lines 224-249 up to the request of line 178
GamesResponse(resp) ==
    /\ pc = "await_games"
    /\ resps' = Append(resps, Received("GetOwnedGames", resp))
    /\ IF RaisesInTry(resp) /\ "games" \notin TryBlocks
       THEN /\ pc' = "raised"
            /\ UNCHANGED <<owned_games, profile_data, simplified, log>>
       ELSE /\ owned_games' = OwnedGames(resp)
            /\ profile_data' = Some([profile |-> user_data[1],
                                     friends |-> friends_list,
                                     owned_games_sample |-> owned_games'])
            /\ simplified' = Some(Simplify(profile_data'[1]))
            /\ log' = log \o <<Reply(Card(user_data[1])), Request("OllamaChat", <<>>)>>
            /\ pc' = "await_llm"
    /\ UNCHANGED <<text, steam_id, user_data, friend_ids, i, friends_list,
                   roast, resolveVars, gamesVars, tallyVars>>

\* lines 179-185 and line 250
LlmResponse(resp) ==
    /\ pc = "await_llm"
    /\ resps' = Append(resps, Received("OllamaChat", resp))
    /\ IF LlmRaises(resp) /\ "llm" \notin TryBlocks
       THEN /\ pc' = "raised"
            /\ UNCHANGED <<roast, log>>
       ELSE /\ roast' = Some(LlmMessage(resp, simplified[1]))
            /\ log' = Append(log, Reply("roast"))
            /\ pc' = "done"
    /\ UNCHANGED <<text, steam_id, user_data, friend_ids, i, friends_list, owned_games,
                   profile_data, simplified, resolveVars, gamesVars, tallyVars>>

\* the handler's locals before a message arrives
HandlerLocals ==
    /\ text = <<>>
    /\ steam_id = None
    /\ user_data = None
    /\ friend_ids = <<>>
    /\ i = 0
    /\ friends_list = <<>>
    /\ owned_games = <<>>
    /\ profile_data = None
    /\ simplified = None
    /\ roast = None
    /\ log = <<>>
    /\ resps = <<>>

\* the handler returns (lines 213, 221, 226, 250) or its exception reaches the
\* dispatcher; its locals are gone and the bot waits for the next message
Return ==
    /\ pc \in {"done", "raised"}
    /\ pc' = "idle"
    /\ text' = <<>>
    /\ steam_id' = None
    /\ user_data' = None
    /\ friend_ids' = <<>>
    /\ i' = 0
    /\ friends_list' = <<>>
    /\ owned_games' = <<>>
    /\ profile_data' = None
    /\ simplified' = None
    /\ roast' = None
    /\ log' = <<>>
    /\ resps' = <<>>
    /\ UNCHANGED <<resolveVars, gamesVars, tallyVars>>

\* the variables of the specifications of single functions, further down
NoResolve == user_input = <<>> /\ resolved = None
NoGames == all_games = <<>> /\ sample = <<>>
NoTally == friends_in = <<>> /\ top_countries = <<>>

Init ==
    /\ pc = "idle"
    /\ HandlerLocals
    /\ NoResolve
    /\ NoGames
    /\ NoTally

Next ==
    \/ \E msg \in Messages : HandleMessage(msg)
    \/ \E resp \in Failures \cup {Ok(p) : p \in VanityPayloads} : VanityResponse(resp)
    \/ \E resp \in Failures \cup {Ok(p) : p \in ProfilePayloads} : ProfileResponse(resp)
    \/ \E resp \in Failures \cup {Ok(p) : p \in FriendPayloads} : FriendsResponse(resp)
    \/ \E resp \in Failures \cup {Ok(BatchPayload(Batch(friend_ids, i)))} : BatchResponse(resp)
    \/ \E resp \in Failures \cup {Ok(p) : p \in GamePayloads} : GamesResponse(resp)
    \/ \E resp \in Failures \cup {Ok(Generated)} : LlmResponse(resp)
    \/ Return

Spec == Init /\ [][Next]_vars

-----------------------------------------------------------------------------
(* resolve_steam_id on its own, over inputs of every shape: optional       *)
(* padding, a run of digits, and at most one character of the run          *)
(* replaced by a letter or a blank.                                        *)

MaxPad == 1
MaxDigits == 17

DigitSeq == <<"0", "1", "2", "3", "4", "5", "6", "7", "8", "9">>
Pad(n) == [k \in 1..n |-> " "]
Body(n, at, ch) == [k \in 1..n |-> IF k = at THEN ch ELSE DigitSeq[(k % 10) + 1]]

ResolveInputs ==
    { Pad(l) \o Body(n, at, ch) \o Pad(r) :
        l \in 0..MaxPad, r \in 0..MaxPad,
        n \in 0..MaxDigits, at \in 0..MaxDigits, ch \in {"x", " "} }

ResolveInit ==
    /\ pc = "call"
    /\ HandlerLocals
    /\ user_input \in ResolveInputs
    /\ resolved = None
    /\ NoGames
    /\ NoTally

\* lines 30-37
ResolveCall ==
    /\ pc = "call"
    /\ IF IsCanonical(Strip(user_input))
       THEN /\ resolved' = Some(Strip(user_input))
            /\ pc' = "returned"
            /\ UNCHANGED log
       ELSE /\ pc' = "await_vanity"
            /\ log' = Append(log, Request("ResolveVanityURL", Strip(user_input)))
            /\ UNCHANGED resolved
    /\ UNCHANGED <<text, steam_id, user_data, friend_ids, i, friends_list, owned_games,
                   profile_data, simplified, roast, resps, user_input, gamesVars, tallyVars>>

\* lines 38-44
ResolveResponse(resp) ==
    /\ pc = "await_vanity"
    /\ resps' = Append(resps, Received("ResolveVanityURL", resp))
    /\ IF VanityRaises(resp) /\ "vanity" \notin TryBlocks
       THEN /\ pc' = "raised"
            /\ UNCHANGED resolved
       ELSE /\ pc' = "returned"
            /\ resolved' = VanityResult(resp)
    /\ UNCHANGED <<text, steam_id, user_data, friend_ids, i, friends_list, owned_games,
                   profile_data, simplified, roast, log, user_input, gamesVars, tallyVars>>

ResolveNext ==
    \/ ResolveCall
    \/ \E resp \in Failures \cup {Ok(p) : p \in VanityPayloads} : ResolveResponse(resp)

SpecResolve == ResolveInit /\ [][ResolveNext]_vars

-----------------------------------------------------------------------------
(* Lines 108-110 on their own.  The provider's list is built one game at   *)
(* a time, up to MaxGames games, then sorted and cut.  The first WideGames *)
(* games have any of three playtimes or none, the later ones one of two.   *)

MaxGames == 11
WideGames == 4
PlaytimeChoices(n) ==
    IF n <= WideGames
    THEN {None, Some(0), Some(30), Some(60)}
    ELSE {None, Some(60)}

GamesInit ==
    /\ pc = "input"
    /\ HandlerLocals
    /\ NoResolve
    /\ NoGames
    /\ NoTally

AddGame(minutes) ==
    /\ pc = "input"
    /\ Len(all_games) < MaxGames
    /\ all_games' = Append(all_games, Game(Len(all_games) + 1, minutes))
    /\ UNCHANGED <<handlerVars, sample, resolveVars, tallyVars>>

SortGames ==
    /\ pc = "input"
    /\ pc' = "output"
    /\ sample' = GameSample(all_games)
    /\ UNCHANGED <<text, steam_id, user_data, friend_ids, i, friends_list, owned_games,
                   profile_data, simplified, roast, log, resps, all_games,
                   resolveVars, tallyVars>>

GamesNext ==
    \/ \E minutes \in PlaytimeChoices(Len(all_games) + 1) : AddGame(minutes)
    \/ SortGames

SpecGames == GamesInit /\ [][GamesNext]_vars

-----------------------------------------------------------------------------
(* Lines 132-136 on their own.  The friends arrive one at a time; a friend *)
(* has no country, a country seen before, or the next country not yet      *)
(* seen (which country is new does not matter, only that it is).           *)

MaxTallyFriends == 7
CountryCodes == <<"US", "RU", "FR", "DE", "JP", "CN">>

Seen(friends) ==
    {friends[k].loccountrycode[1] :
        k \in {m \in 1..Len(friends) : friends[m].loccountrycode # None}}

NextCountries(friends) ==
    {None} \cup {Some(c) : c \in Seen(friends)}
           \cup (IF Cardinality(Seen(friends)) < Len(CountryCodes)
                 THEN {Some(CountryCodes[Cardinality(Seen(friends)) + 1])}
                 ELSE {})

TallyInit ==
    /\ pc = "input"
    /\ HandlerLocals
    /\ NoResolve
    /\ NoGames
    /\ NoTally

AddFriend(country) ==
    /\ pc = "input"
    /\ Len(friends_in) < MaxTallyFriends
    /\ friends_in' = Append(friends_in, [steamid |-> Len(friends_in) + 1,
                                         loccountrycode |-> country])
    /\ UNCHANGED <<handlerVars, top_countries, resolveVars, gamesVars>>

RankCountries ==
    /\ pc = "input"
    /\ pc' = "output"
    /\ top_countries' = TopCountries(friends_in)
    /\ UNCHANGED <<text, steam_id, user_data, friend_ids, i, friends_list, owned_games,
                   profile_data, simplified, roast, log, resps, friends_in,
                   resolveVars, gamesVars>>

TallyNext ==
    \/ \E country \in NextCountries(friends_in) : AddFriend(country)
    \/ RankCountries

SpecTally == TallyInit /\ [][TallyNext]_vars

-----------------------------------------------------------------------------
(* What the properties below read off a state *)

\* the requests sent to one endpoint, in order
ReqSeq(what) == SelectSeq(log, LAMBDA e : e.ev = "request" /\ e.what = what)

\* the responses of one endpoint, in order
RespSeq(what) == SelectSeq(resps, LAMBDA r : r.what = what)

\* the replies sent to the user, in order
ReplySeq ==
    LET replies == SelectSeq(log, LAMBDA e : e.ev = "reply")
    IN [k \in 1..Len(replies) |-> replies[k].what]

\* a call that ended in a transport error, a timeout, a status other than
\* 200 or a body that does not parse
Failed(resp) == resp.kind # "http" \/ resp.status # 200 \/ ~resp.parsed

FetchOver == pc \in {"await_llm", "done", "raised"}

ProfileSucceeded ==
    \E k \in 1..Len(resps) :
        /\ resps[k].what = "GetPlayerSummaries"
        /\ ~Failed(resps[k].resp)
        /\ resps[k].resp.payload # <<>>

ProfileFailed ==
    \E k \in 1..Len(resps) :
        resps[k].what = "GetPlayerSummaries" /\ Failed(resps[k].resp)

FriendsFailed ==
    \E k \in 1..Len(resps) :
        resps[k].what = "GetFriendList" /\ Failed(resps[k].resp)

-----------------------------------------------------------------------------
(* C1: when the profile request succeeds with a player and the friend-list *)
(* request fails, fetch_steam_profile still returns an aggregate, and its  *)
(* friends are empty; when the profile request fails, no aggregate is      *)
(* returned and neither the friends nor the games are requested.           *)
C1_PartialFailure ==
    /\ (FetchOver /\ ProfileSucceeded /\ FriendsFailed) =>
           /\ profile_data # None
           /\ profile_data[1].friends = <<>>
    /\ ProfileFailed =>
           /\ pc \in {"done", "raised"}
           /\ profile_data = None
           /\ ReqSeq("GetFriendList") = <<>>
           /\ ReqSeq("GetOwnedGames") = <<>>

C1_Witness ==
    /\ pc = "done"
    /\ ProfileSucceeded
    /\ \E k \in 1..Len(resps) :
           resps[k].what = "GetFriendList" /\ resps[k].resp.kind = "timeout"
    /\ profile_data # None
    /\ profile_data[1].friends = <<>>
    /\ profile_data[1].owned_games_sample # <<>>

(* C2: no failure of an outbound call leaves handle_steam_id as an         *)
(* exception; every message ends with one error reply to the user or with  *)
(* the card followed by the commentary.                                    *)
C2_NoEscape ==
    /\ pc # "raised"
    /\ pc = "done" =>
           ReplySeq \in { <<"not_found_id">>, <<"not_found_data">>, <<"bad_link">>,
                          <<"card_photo", "roast">>, <<"card_text", "roast">> }

\* the records of the batches that answered 200 with a body, in batch order
RECURSIVE ConcatOk(_, _)
ConcatOk(rs, k) ==
    IF k > Len(rs) THEN <<>>
    ELSE (IF Failed(rs[k].resp) THEN <<>> ELSE rs[k].resp.payload) \o ConcatOk(rs, k + 1)

(* C3: once the friends are fetched, one request was sent per consecutive  *)
(* batch of at most 100 ids, in order, whatever happened to earlier        *)
(* batches, and the friends are the records of the batches that succeeded. *)
C3_Batching ==
    LET fl == RespSeq("GetFriendList")
    IN (/\ pc \in {"await_games", "await_llm", "done"}
        /\ Len(fl) = 1
        /\ ~Failed(fl[1].resp)
        /\ fl[1].resp.payload # <<>>) =>
           LET ids == fl[1].resp.payload
               nb == (Len(ids) + 99) \div 100
               reqs == ReqSeq("FriendSummaries")
           IN /\ Len(reqs) = nb
              /\ \A b \in 1..nb :
                     reqs[b].arg = SubSeq(ids, 100 * (b - 1) + 1, Min(100 * b, Len(ids)))
              /\ friends_list = ConcatOk(RespSeq("FriendSummaries"), 1)

\* two digests with the same text
SameDigest(a, b) ==
    /\ a.persona = b.persona
    /\ a.name = b.name
    /\ a.country = b.country
    /\ a.total_friends = b.total_friends
    /\ a.top_countries = b.top_countries
    /\ a.sample_size = b.sample_size
    /\ a.total_minutes = b.total_minutes
    /\ a.titles = b.titles

CardReplies == {"card_photo", "card_text"}

(* C7: when the id resolves and the profile is fetched, the user gets      *)
(* exactly the card and then the commentary, and the commentary is         *)
(* requested only after the card went out; when the id does not resolve    *)
(* or there is no profile, the user gets exactly one not-found reply and   *)
(* neither the digest nor the commentary is made.                          *)
C7_ReplyOrder ==
    /\ \A k \in 1..Len(log) :
           (log[k].ev = "request" /\ log[k].what = "OllamaChat") =>
               \E j \in 1..(k - 1) : log[j].ev = "reply" /\ log[j].what \in CardReplies
    /\ (pc = "done" /\ profile_data # None) =>
           /\ Len(ReplySeq) = 2
           /\ ReplySeq[1] \in CardReplies
           /\ ReplySeq[2] = "roast"
    /\ (pc = "done" /\ (steam_id = None \/ steam_id = Some(<<>>)) /\ ReplySeq # <<"bad_link">>) =>
           /\ ReplySeq = <<"not_found_id">>
           /\ ReqSeq("GetPlayerSummaries") = <<>>
    /\ (pc = "done" /\ profile_data = None /\ ReplySeq # <<"bad_link">>) =>
           /\ ReplySeq \in {<<"not_found_id">>, <<"not_found_data">>}
           /\ simplified = None
           /\ roast = None
           /\ ReqSeq("OllamaChat") = <<>>

C7_Witness ==
    /\ pc = "done"
    /\ ReqSeq("ResolveVanityURL") # <<>>
    /\ ReplySeq = <<"card_photo", "roast">>

-----------------------------------------------------------------------------
(* C10: the scenario of a 17-digit id, three friends (two in the US, one   *)
(* without a country) and twelve owned games.                              *)

RECURSIVE SumMinutes(_, _)
SumMinutes(games, names) ==
    IF games = <<>> THEN 0
    ELSE (IF Head(games).name \in names
          THEN (IF Head(games).playtime_forever = None
                THEN 0 ELSE Head(games).playtime_forever[1])
          ELSE 0) + SumMinutes(Tail(games), names)

C10_Scenario ==
    /\ pc = "done"
    /\ text = Id17
    /\ profile_data # None
    /\ Len(profile_data[1].friends) = 3
    /\ Cardinality({k \in 1..3 : profile_data[1].friends[k].loccountrycode = Some("US")}) = 2
    /\ Cardinality({k \in 1..3 : profile_data[1].friends[k].loccountrycode = None}) = 1
    /\ LET gs == RespSeq("GetOwnedGames")
       IN ~Failed(gs[1].resp) /\ Len(gs[1].resp.payload) = 12

\* the resolver sent nothing, and the gaming section is about the ten games
\* with the most minutes: no game left out has more minutes than one kept
C10_GamingSection ==
    LET provided == RespSeq("GetOwnedGames")[1].resp.payload
        kept == {simplified[1].titles[k] : k \in 1..Len(simplified[1].titles)}
        key(n) == IF provided[n].playtime_forever = None
                  THEN 0 ELSE provided[n].playtime_forever[1]
    IN /\ ReqSeq("ResolveVanityURL") = <<>>
       /\ simplified[1].sample_size = 10
       /\ Cardinality(kept) = 10
       /\ kept \subseteq 1..12
       /\ \A n \in kept : \A m \in (1..12) \ kept : key(n) >= key(m)
       /\ \A k \in 1..9 : key(simplified[1].titles[k]) >= key(simplified[1].titles[k + 1])
       /\ simplified[1].total_minutes = SumMinutes(provided, kept)

(* C10, as amended: the friends section lists "2 from US, 1 from ??".      *)
C10_EndToEnd ==
    C10_Scenario =>
        /\ C10_GamingSection
        /\ simplified[1].top_countries = <<[c |-> "US", cnt |-> 2], [c |-> "??", cnt |-> 1]>>

(* C10, as stated: the friends section reads "2 from US" and no more.      *)
C10_Original ==
    C10_Scenario =>
        /\ C10_GamingSection
        /\ simplified[1].top_countries = <<[c |-> "US", cnt |-> 2]>>

C10_Witness ==
    /\ C10_Scenario
    /\ simplified[1].total_friends = 3
    /\ simplified[1].sample_size = 10

-----------------------------------------------------------------------------
(* C4: a trimmed input of 15 or more digits is returned as it is, and      *)
(* nothing is requested.                                                   *)
C4_NumericBypass ==
    LET trimmed == Strip(user_input)
    IN (pc # "call" /\ Len(trimmed) >= 15 /\ \A k \in 1..Len(trimmed) : trimmed[k] \in DigitChars) =>
           /\ pc = "returned"
           /\ resolved = Some(trimmed)
           /\ log = <<>>
           /\ resps = <<>>

C4_Witness ==
    /\ pc = "returned"
    /\ Len(user_input) = 17
    /\ Len(Strip(user_input)) = 15
    /\ IsDigit(Strip(user_input))
    /\ resolved = Some(Strip(user_input))

NonNumeric(s) == \E k \in 1..Len(s) : s[k] \notin DigitChars

-----------------------------------------------------------------------------
(* C8: the sample is the first min(10, n) games of a stable descending     *)
(* sort by playtime: the game in place r is the one that r - 1 games       *)
(* precede, a game preceding another when it has more minutes, or as many  *)
(* and an earlier place in the provider's list.                            *)

Minutes(g) == IF g.playtime_forever = None THEN 0 ELSE g.playtime_forever[1]

Before(g, h) ==
    \/ Minutes(g) > Minutes(h)
    \/ Minutes(g) = Minutes(h) /\ g.name < h.name

GameRank(g) == Cardinality({k \in 1..Len(all_games) : Before(all_games[k], g)})

C8_GameSample ==
    pc = "output" =>
        /\ Len(sample) = Min(10, Len(all_games))
        /\ \A r \in 1..Len(sample) :
               /\ \E k \in 1..Len(all_games) : all_games[k] = sample[r]
               /\ GameRank(sample[r]) = r - 1

C8_Witness ==
    /\ pc = "output"
    /\ Len(all_games) = 11
    /\ Len(sample) = 10
    /\ \E r \in 1..9 : Minutes(sample[r]) = Minutes(sample[r + 1])
    /\ \E r \in 1..9 : Minutes(sample[r]) > Minutes(sample[r + 1])
    /\ Minutes(all_games[1]) < Minutes(all_games[11])

-----------------------------------------------------------------------------
(* C9: the digest lists at most five countries, each with the number of    *)
(* friends in it (friends without a country under "??"), the country in    *)
(* place r being the one that r - 1 countries precede, a country preceding *)
(* another when it has more friends, or as many and an earlier first       *)
(* friend.                                                                 *)

Bucket(f) == IF f.loccountrycode = None THEN "??" ELSE f.loccountrycode[1]

Buckets == {Bucket(friends_in[k]) : k \in 1..Len(friends_in)}

Members(c) == {k \in 1..Len(friends_in) : Bucket(friends_in[k]) = c}

First(c) == CHOOSE k \in Members(c) : \A m \in Members(c) : k <= m

Precedes(c, d) ==
    \/ Cardinality(Members(c)) > Cardinality(Members(d))
    \/ Cardinality(Members(c)) = Cardinality(Members(d)) /\ First(c) < First(d)

C9_CountryRanking ==
    pc = "output" =>
        /\ Len(top_countries) = Min(5, Cardinality(Buckets))
        /\ \A r \in 1..Len(top_countries) :
               /\ top_countries[r].c \in Buckets
               /\ top_countries[r].cnt = Cardinality(Members(top_countries[r].c))
               /\ Cardinality({d \in Buckets : Precedes(d, top_countries[r].c)}) = r - 1

C9_Witness ==
    /\ pc = "output"
    /\ Cardinality(Buckets) > 5
    /\ Len(top_countries) = 5
    /\ "??" \in {top_countries[r].c : r \in 1..5}
    /\ \E r \in 1..4 : top_countries[r].cnt = top_countries[r + 1].cnt
    /\ \E r \in 1..4 : top_countries[r].cnt > top_countries[r + 1].cnt

====
